---------------------------- MODULE Spec2Model ----------------------------
(***************************************************************************)
(* A model of the nonogram solver of src/nonogram_solver.py: the class     *)
(* Nonogram with its field, its two skip lists, and the methods solve,     *)
(* _define_lines_to_skip, _estimate_n_options, _paint_block_overlaps,      *)
(* _iterate_until_solved, _solve_rows, _solve_columns, _update_line,       *)
(* _initialize_line, _generate_option and _find_if_block_fits.             *)
(*                                                                         *)
(* Python lists are sequences; a Python index p is the TLA+ index p + 1.   *)
(* Two specifications share the variables: Spec is a whole solve() of a    *)
(* puzzle, LineSpec applies the line-level functions to one line.          *)
(***************************************************************************)
EXTENDS Integers, Sequences, FiniteSets, TLC

\* States of puzzle field
UNKNOWN == 0
SPACE == 1
PAINTED == 2

\* Bounds of the model
MaxCells == 8
MaxThreshold == 2
NoSkipThreshold == 1000
MaxLineLen == 5
MaxOverhang == 2

VARIABLES
    top_nums,         \* column clues, [[col1], [col2], ...]
    side_nums,        \* row clues, [[row1], [row2], ...]
    skip_threshold,   \* argument of solve()
    field,            \* list of rows, each a list of cell states
    rows_skipped,     \* list of skipped row indexes
    cols_skipped,     \* list of skipped column indexes
    field_save,       \* the deep copy taken at the top of the while loop
    iteration_count,  \* local of _iterate_until_solved
    ind_line,         \* loop index of _solve_rows / _solve_columns
    pc,               \* position of the control flow of solve()
    line,             \* LineSpec: the line argument
    block_lengths,    \* LineSpec: the block_lengths argument
    op,               \* LineSpec: the function last applied
    ret               \* LineSpec: what it returned

solve_vars == <<top_nums, side_nums, skip_threshold, field, rows_skipped,
                cols_skipped, field_save, iteration_count, ind_line, pc>>
line_vars == <<line, block_lengths, op, ret>>
vars == <<top_nums, side_nums, skip_threshold, field, rows_skipped,
          cols_skipped, field_save, iteration_count, ind_line, pc,
          line, block_lengths, op, ret>>

----------------------------------------------------------------------------
(* Python list primitives *)

Min(a, b) == IF a < b THEN a ELSE b
Max(a, b) == IF a > b THEN a ELSE b

\* Python's normalisation of a slice bound i for a list of length n.
SliceIndex(i, n) == IF i < 0 THEN Max(i + n, 0) ELSE Min(i, n)

\* s[a:b]
PySlice(s, a, b) ==
    LET lo == SliceIndex(a, Len(s))
        hi == SliceIndex(b, Len(s))
    IN  [k \in 1..Max(hi - lo, 0) |-> s[lo + k]]

\* s[a:b] = v  (the list may change its length)
PySliceAssign(s, a, b, v) ==
    LET lo == SliceIndex(a, Len(s))
        hi == Max(SliceIndex(b, Len(s)), lo)
    IN  PySlice(s, 0, lo) \o v \o PySlice(s, hi, Len(s))

\* A list built from the items of s.
list_of(s) == SubSeq(s, 1, Len(s))

\* [x] * n  (empty for n <= 0)
Repeat(x, n) == [k \in 1..Max(n, 0) |-> x]

\* s[::-1]
Reverse(s) == [k \in 1..Len(s) |-> s[Len(s) + 1 - k]]

\* x in s
In(x, s) == \E k \in 1..Len(s) : s[k] = x

RECURSIVE sum(_)
sum(s) == IF s = <<>> THEN 0 ELSE Head(s) + sum(Tail(s))

RECURSIVE factorial(_)
factorial(n) == IF n <= 0 THEN 1 ELSE n * factorial(n - 1)

\* A function's outcome: the value returned, or ValueError raised.
Return(v) == [raised |-> FALSE, value |-> v]
Raise == [raised |-> TRUE, value |-> <<>>]

----------------------------------------------------------------------------
(* _estimate_n_options: math.factorial raises ValueError on a negative      *)
(* argument.                                                                *)

\* Variant: the placements whose last gap is not empty are left out.
estimate_n_options_last_gap_empty(bl, n_line) ==
    LET free_squares == n_line - sum(bl)
    IN  IF free_squares < 0 \/ Len(bl) - 1 < 0 \/ free_squares - Len(bl) + 1 < 0
        THEN Raise
        ELSE Return((factorial(free_squares) \div factorial(Len(bl) - 1))
                        \div factorial(free_squares - Len(bl) + 1))

estimate_n_options(bl, n_line) ==
    LET free_squares == n_line - sum(bl)
        n_ways_last_gap_not_empty ==
            IF free_squares >= Len(bl)
            THEN (factorial(free_squares) \div factorial(Len(bl)))
                     \div factorial(free_squares - Len(bl))
            ELSE 0
        n_ways_last_gap_empty ==
            (factorial(free_squares) \div factorial(Len(bl) - 1))
                \div factorial(free_squares - Len(bl) + 1)
    IN  IF free_squares < 0 \/ Len(bl) - 1 < 0 \/ free_squares - Len(bl) + 1 < 0
        THEN Raise
        ELSE Return(n_ways_last_gap_not_empty + n_ways_last_gap_empty)

----------------------------------------------------------------------------
(* _find_if_block_fits and _generate_option *)

\* Variant: the cells after the last block are not looked at.
find_if_block_fits_no_tail(ind_block, starting_position, bl, previous_block_positions, ln) ==
    LET space_start ==
            IF ind_block = 0 THEN 0
            ELSE previous_block_positions[Len(previous_block_positions)]
                     + bl[ind_block]
    IN  IF In(SPACE, PySlice(ln, starting_position,
                             starting_position + bl[ind_block + 1]))
        THEN FALSE
        ELSE ~In(PAINTED, PySlice(ln, space_start, starting_position))

find_if_block_fits(ind_block, starting_position, bl, previous_block_positions, ln) ==
    LET space_start ==
            IF ind_block = 0 THEN 0
            ELSE previous_block_positions[Len(previous_block_positions)]
                     + bl[ind_block]
    IN  IF In(SPACE, PySlice(ln, starting_position,
                             starting_position + bl[ind_block + 1]))
        THEN FALSE
        ELSE IF In(PAINTED, PySlice(ln, space_start, starting_position))
        THEN FALSE
        ELSE IF ind_block = Len(bl) - 1
                /\ In(PAINTED, PySlice(ln, starting_position + bl[ind_block + 1],
                                       Len(ln)))
        THEN FALSE
        ELSE TRUE

\* The option built from the block positions once the final block is placed:
\* all spaces, then Painted in block_position : block_position + length of
\* every block (a slice within the line, by max_start).
make_option(ln, bl, block_positions) ==
    [p \in 1..Len(ln) |->
        IF \E i_block \in 1..Len(block_positions) :
               /\ block_positions[i_block] <= p - 1
               /\ p - 1 < block_positions[i_block] + bl[i_block]
        THEN PAINTED
        ELSE SPACE]

\* The sequence of the options the generator yields, in the order of the
\* yields; generate_from is the for loop from starting_position on.
RECURSIVE generate_option(_, _, _, _)
RECURSIVE generate_from(_, _, _, _, _, _)
\* Variant: a block may start right at the end of the previous one.
generate_option_no_gap(ln, bl, ind_block, previous_block_positions) ==
    LET min_start ==
            IF ind_block = 0 THEN 0
            ELSE previous_block_positions[Len(previous_block_positions)]
                     + bl[ind_block]
        max_start == Len(ln) - sum(PySlice(bl, ind_block, Len(bl)))
                         - (Len(bl) - ind_block - 1)
    IN  generate_from(ln, bl, ind_block, previous_block_positions,
                      min_start, max_start)

generate_option(ln, bl, ind_block, previous_block_positions) ==
    LET min_start ==
            IF ind_block = 0 THEN 0
            ELSE previous_block_positions[Len(previous_block_positions)]
                     + bl[ind_block] + 1
        max_start == Len(ln) - sum(PySlice(bl, ind_block, Len(bl)))
                         - (Len(bl) - ind_block - 1)
    IN  generate_from(ln, bl, ind_block, previous_block_positions,
                      min_start, max_start)

generate_from(ln, bl, ind_block, previous_block_positions, starting_position, max_start) ==
    IF starting_position > max_start THEN <<>>
    ELSE LET block_positions ==
                 Append(previous_block_positions, starting_position)
             yielded ==
                 IF find_if_block_fits(ind_block, starting_position, bl,
                                       previous_block_positions, ln)
                 THEN IF ind_block # Len(bl) - 1
                      THEN generate_option(ln, bl, ind_block + 1, block_positions)
                      ELSE <<make_option(ln, bl, block_positions)>>
                 ELSE <<>>
         IN  yielded \o generate_from(ln, bl, ind_block, previous_block_positions,
                                      starting_position + 1, max_start)

----------------------------------------------------------------------------
(* _initialize_line and _update_line *)

\* Variant: every position is checked, the discovered ones too.
positions_all(ln) == [k \in 1..Len(ln) |-> k - 1]

\* [ind for ind, state in enumerate(line) if state == UNKNOWN]
positions_of_unknown(ln) ==
    SelectSeq([k \in 1..Len(ln) |-> k - 1], LAMBDA p : ln[p + 1] = UNKNOWN)

\* Variant: no error when no option is found.
initialize_line_no_raise(positions_to_check, ln, bl) ==
    LET options == generate_option(ln, bl, 0, <<>>)
    IN  IF options = <<>> THEN Return(Repeat(SPACE, Len(positions_to_check)))
        ELSE Return([k \in 1..Len(positions_to_check) |->
                         Head(options)[positions_to_check[k] + 1]])

initialize_line(positions_to_check, ln, bl) ==
    LET options == generate_option(ln, bl, 0, <<>>)
    IN  IF options = <<>> THEN Raise
        ELSE Return([k \in 1..Len(positions_to_check) |->
                         Head(options)[positions_to_check[k] + 1]])

\* Variant: the line is reversed, the block lengths are not.
probe_options_keep_clue(line_to_contradict, bl, position) ==
    IF 2 * position < Len(line_to_contradict)
    THEN generate_option(line_to_contradict, bl, 0, <<>>)
    ELSE generate_option(Reverse(line_to_contradict), bl, 0, <<>>)

\* The options searched for one position of the line to contradict: from
\* the start for the first half of the line, from the end for the rest.
probe_options(line_to_contradict, bl, position) ==
    IF 2 * position < Len(line_to_contradict)
    THEN generate_option(line_to_contradict, bl, 0, <<>>)
    ELSE generate_option(Reverse(line_to_contradict), Reverse(bl), 0, <<>>)

\* Variant: the unknown positions take the values of the first option, with
\* no attempt to contradict them.
probe_line_first_option(ln, bl) ==
    LET options == generate_option(ln, bl, 0, <<>>)
    IN  IF options = <<>> THEN Raise
        ELSE Return([p \in 1..Len(ln) |->
                        IF ln[p] = UNKNOWN THEN Head(options)[p] ELSE ln[p]])

\* The body of _update_line past its first test: initialize the unknown
\* positions from the first option, then try to contradict each of them.
probe_line(ln, bl) ==
    LET positions_to_check == positions_of_unknown(ln)
        initialized == initialize_line(positions_to_check, ln, bl)
        updated_states ==
            [ind \in 1..Len(positions_to_check) |->
                LET position == positions_to_check[ind]
                    line_to_contradict ==
                        [ln EXCEPT ![position + 1] =
                            IF initialized.value[ind] = SPACE
                            THEN PAINTED ELSE SPACE]
                IN  IF probe_options(line_to_contradict, bl, position) # <<>>
                    THEN UNKNOWN
                    ELSE initialized.value[ind]]
    IN  IF initialized.raised THEN Raise
        ELSE Return([p \in 1..Len(ln) |->
                 IF \E i \in 1..Len(positions_to_check) :
                        positions_to_check[i] = p - 1
                 THEN updated_states[CHOOSE i \in 1..Len(positions_to_check) :
                                         positions_to_check[i] = p - 1]
                 ELSE ln[p]])

update_line(ln, bl) ==
    IF ln = Repeat(UNKNOWN, Len(ln)) THEN Return(ln)
    ELSE probe_line(ln, bl)

----------------------------------------------------------------------------
(* _paint_block_overlaps *)

\* Variant: block i itself is not counted.
min_finish_of_before(bl, i) == i + sum(PySlice(bl, 0, i))
\* minimum possible end of block i
min_finish_of(bl, i) == i + sum(PySlice(bl, 0, i + 1))
\* Variant: the separating spaces after block i are not counted.
max_start_of_no_gaps(bl, i, n) == n - sum(PySlice(bl, i, Len(bl)))
\* maximum possible start of block i in a line of n cells
max_start_of(bl, i, n) == n - sum(PySlice(bl, i, Len(bl))) - (Len(bl) - i - 1)

\* The loop over the blocks of one row: a slice assignment per block.
RECURSIVE paint_row(_, _, _, _)
paint_row(row, bl, i, n_cols) ==
    IF i >= Len(bl) THEN row
    ELSE paint_row(
             PySliceAssign(row, max_start_of(bl, i, n_cols), min_finish_of(bl, i),
                           Repeat(PAINTED,
                                  min_finish_of(bl, i) - max_start_of(bl, i, n_cols))),
             bl, i + 1, n_cols)

\* The loop over the columns: a cell-by-cell assignment per block.
paint_columns(f, top, n_rows, n_cols) ==
    [r \in 1..Len(f) |->
        [c \in 1..Len(f[r]) |->
            IF /\ r <= n_rows
               /\ c <= n_cols
               /\ \E i \in 0..(Len(top[c]) - 1) :
                      /\ max_start_of(top[c], i, n_rows) <= r - 1
                      /\ r - 1 < min_finish_of(top[c], i)
            THEN PAINTED
            ELSE f[r][c]]]

paint_block_overlaps(f, side, top) ==
    paint_columns(list_of([r \in 1..Len(side) |->
                               paint_row(f[r], side[r], 0, Len(top))]),
                  top, Len(side), Len(top))

----------------------------------------------------------------------------
(* _define_lines_to_skip *)

\* Variant: a line with exactly as many options as the threshold is skipped.
lines_to_skip_at_least(nums, n_line, threshold) ==
    SelectSeq([k \in 1..Len(nums) |-> k - 1],
              LAMBDA i : estimate_n_options(nums[i + 1], n_line).value >= threshold)
\* The indexes (ascending, as appended) of the lines with more options than
\* the threshold.
lines_to_skip(nums, n_line, threshold) ==
    SelectSeq([k \in 1..Len(nums) |-> k - 1],
              LAMBDA i : estimate_n_options(nums[i + 1], n_line).value > threshold)

estimate_raises(side, top) ==
    \/ \E r \in 1..Len(side) : estimate_n_options(side[r], Len(top)).raised
    \/ \E c \in 1..Len(top) : estimate_n_options(top[c], Len(side)).raised

----------------------------------------------------------------------------
(* The puzzles and lines the model draws its inputs from *)

\* The clues of positive block lengths that fit a line of n cells.  A clue
\* that does not fit makes _estimate_n_options raise ValueError before any
\* cell is touched; LineSpec covers those clues.
FittingClues(n) ==
    {bl \in UNION {[1..k -> 1..(n - 2 * (k - 1))] : k \in 1..((n + 1) \div 2)} :
        sum(bl) + Len(bl) - 1 <= n}

Sizes == {s \in (1..MaxCells) \X (1..MaxCells) : s[1] * s[2] <= MaxCells}

\* The thresholds given to solve(): small ones, and one above the number of
\* options of every line of the model, as the default 30_000_000_000 is.
SkipThresholds == (0..MaxThreshold) \cup {NoSkipThreshold}

\* The lines of n cells, and the clues given with them: those that fit, and
\* those too long by up to MaxOverhang cells.
Lines(n) == [1..n -> {UNKNOWN, SPACE, PAINTED}]
Clues(n) == FittingClues(n + MaxOverhang)

n_rows == Len(side_nums)
n_cols == Len(top_nums)
column(f, ind_col) == [r \in 1..Len(f) |-> f[r][ind_col + 1]]
flattened(f) == {f[r][c] : r \in 1..Len(f), c \in 1..n_cols}

----------------------------------------------------------------------------
(* Spec: one call of solve() on a fresh Nonogram *)

\* The fresh instance at the entry of solve().
solve_entry ==
    /\ rows_skipped = <<>>
    /\ cols_skipped = <<>>
    /\ field_save = <<>>
    /\ iteration_count = 0
    /\ ind_line = 0
    /\ pc = "define_lines_to_skip"

solve_init ==
    /\ \E s \in Sizes :
           /\ side_nums \in [1..s[1] -> FittingClues(s[2])]
           /\ top_nums \in [1..s[2] -> FittingClues(s[1])]
           /\ field = [r \in 1..s[1] |-> Repeat(UNKNOWN, s[2])]
    /\ skip_threshold \in SkipThresholds
    /\ solve_entry

line_idle ==
    /\ line = <<>>
    /\ block_lengths = <<>>
    /\ op = "none"
    /\ ret = <<>>

Init == solve_init /\ line_idle

DefineLinesToSkip ==
    /\ pc = "define_lines_to_skip"
    /\ IF estimate_raises(side_nums, top_nums)
       THEN /\ pc' = "value_error"
            /\ UNCHANGED <<rows_skipped, cols_skipped>>
       ELSE /\ rows_skipped' = lines_to_skip(side_nums, n_cols, skip_threshold)
            /\ cols_skipped' = lines_to_skip(top_nums, n_rows, skip_threshold)
            /\ pc' = "paint_block_overlaps"
    /\ UNCHANGED <<top_nums, side_nums, skip_threshold, field, field_save,
                   iteration_count, ind_line>>
    /\ UNCHANGED line_vars

PaintBlockOverlaps ==
    /\ pc = "paint_block_overlaps"
    /\ field' = paint_block_overlaps(field, side_nums, top_nums)
    /\ pc' = "iterate"
    /\ UNCHANGED <<top_nums, side_nums, skip_threshold, rows_skipped,
                   cols_skipped, field_save, iteration_count, ind_line>>
    /\ UNCHANGED line_vars

\* Top of the while loop: save the field before the iteration.
StartIteration ==
    /\ pc = "iterate"
    /\ field_save' = field
    /\ ind_line' = 0
    /\ pc' = "solve_rows"
    /\ UNCHANGED <<top_nums, side_nums, skip_threshold, field, rows_skipped,
                   cols_skipped, iteration_count>>
    /\ UNCHANGED line_vars

\* One turn of the loop of _solve_rows.
SolveRow ==
    /\ pc = "solve_rows"
    /\ LET updated == update_line(field[ind_line + 1], side_nums[ind_line + 1])
           last == (ind_line + 1 = n_rows)
       IN  IF In(ind_line, rows_skipped)
           THEN /\ field' = field
                /\ ind_line' = IF last THEN 0 ELSE ind_line + 1
                /\ pc' = IF last THEN "solve_columns" ELSE "solve_rows"
           ELSE IF updated.raised
           THEN /\ pc' = "contradiction"
                /\ UNCHANGED <<field, ind_line>>
           ELSE /\ field' = [field EXCEPT ![ind_line + 1] = updated.value]
                /\ ind_line' = IF last THEN 0 ELSE ind_line + 1
                /\ pc' = IF last THEN "solve_columns" ELSE "solve_rows"
    /\ UNCHANGED <<top_nums, side_nums, skip_threshold, rows_skipped,
                   cols_skipped, field_save, iteration_count>>
    /\ UNCHANGED line_vars

\* One turn of the loop of _solve_columns.
SolveColumn ==
    /\ pc = "solve_columns"
    /\ LET updated == update_line(column(field, ind_line), top_nums[ind_line + 1])
           last == (ind_line + 1 = n_cols)
       IN  IF In(ind_line, cols_skipped)
           THEN /\ field' = field
                /\ ind_line' = IF last THEN 0 ELSE ind_line + 1
                /\ pc' = IF last THEN "check" ELSE "solve_columns"
           ELSE IF updated.raised
           THEN /\ pc' = "contradiction"
                /\ UNCHANGED <<field, ind_line>>
           ELSE /\ field' = [r \in 1..Len(field) |->
                                [field[r] EXCEPT ![ind_line + 1] = updated.value[r]]]
                /\ ind_line' = IF last THEN 0 ELSE ind_line + 1
                /\ pc' = IF last THEN "check" ELSE "solve_columns"
    /\ UNCHANGED <<top_nums, side_nums, skip_threshold, rows_skipped,
                   cols_skipped, field_save, iteration_count>>
    /\ UNCHANGED line_vars

\* Variant: the skip lists are not emptied after a pass without progress.
CheckProgress_keep_skips ==
    /\ pc = "check"
    /\ IF UNKNOWN \notin flattened(field)
       THEN /\ pc' = "solved"
            /\ UNCHANGED iteration_count
       ELSE IF field = field_save /\ rows_skipped = <<>> /\ cols_skipped = <<>>
       THEN /\ pc' = "stalled"
            /\ UNCHANGED iteration_count
       ELSE /\ iteration_count' = iteration_count + 1
            /\ pc' = "iterate"
    /\ UNCHANGED <<top_nums, side_nums, skip_threshold, field, field_save,
                   ind_line, rows_skipped, cols_skipped>>
    /\ UNCHANGED line_vars

\* Variant: the test for no progress comes before the test for solved.
CheckProgress_stall_first ==
    /\ pc = "check"
    /\ IF field = field_save /\ rows_skipped = <<>> /\ cols_skipped = <<>>
       THEN /\ pc' = "stalled"
            /\ UNCHANGED <<rows_skipped, cols_skipped, iteration_count>>
       ELSE IF UNKNOWN \notin flattened(field)
       THEN /\ pc' = "solved"
            /\ UNCHANGED <<rows_skipped, cols_skipped, iteration_count>>
       ELSE /\ rows_skipped' = IF field = field_save THEN <<>> ELSE rows_skipped
            /\ cols_skipped' = IF field = field_save THEN <<>> ELSE cols_skipped
            /\ iteration_count' = iteration_count + 1
            /\ pc' = "iterate"
    /\ UNCHANGED <<top_nums, side_nums, skip_threshold, field, field_save,
                   ind_line>>
    /\ UNCHANGED line_vars

\* Variant: the loop stops at the first pass without progress, skipped lines
\* or not (the loop of the solver without skip lists).
CheckProgress_no_retry ==
    /\ pc = "check"
    /\ IF UNKNOWN \notin flattened(field)
       THEN /\ pc' = "solved"
            /\ UNCHANGED iteration_count
       ELSE IF field = field_save
       THEN /\ pc' = "stalled"
            /\ UNCHANGED iteration_count
       ELSE /\ iteration_count' = iteration_count + 1
            /\ pc' = "iterate"
    /\ UNCHANGED <<top_nums, side_nums, skip_threshold, field, field_save,
                   ind_line, rows_skipped, cols_skipped>>
    /\ UNCHANGED line_vars

\* The tests that follow _do_solution_iteration in the while loop.
CheckProgress ==
    /\ pc = "check"
    /\ IF UNKNOWN \notin flattened(field)
       THEN /\ pc' = "solved"
            /\ UNCHANGED <<rows_skipped, cols_skipped, iteration_count>>
       ELSE IF field = field_save /\ rows_skipped = <<>> /\ cols_skipped = <<>>
       THEN /\ pc' = "stalled"
            /\ UNCHANGED <<rows_skipped, cols_skipped, iteration_count>>
       ELSE /\ rows_skipped' = IF field = field_save THEN <<>> ELSE rows_skipped
            /\ cols_skipped' = IF field = field_save THEN <<>> ELSE cols_skipped
            /\ iteration_count' = iteration_count + 1
            /\ pc' = "iterate"
    /\ UNCHANGED <<top_nums, side_nums, skip_threshold, field, field_save,
                   ind_line>>
    /\ UNCHANGED line_vars

Next ==
    \/ DefineLinesToSkip
    \/ PaintBlockOverlaps
    \/ StartIteration
    \/ SolveRow
    \/ SolveColumn
    \/ CheckProgress

Spec == Init /\ [][Next]_vars

----------------------------------------------------------------------------
(* The solver without skip lists (Nonogram_solver.py): its paint_overlaps,
   update_line and generate_option are those of nonogram_solver.py *)

\* One iteration: every row, then every column.  The update of a line reads
\* and writes that line alone, so the rows are taken together and then the
\* columns; an error in a line ends the iteration.
do_iteration(f, side, top) ==
    LET rows == list_of([r \in 1..Len(side) |-> update_line(f[r], side[r])])
        after_rows == list_of([r \in 1..Len(side) |-> list_of(rows[r].value)])
        cols == list_of([c \in 1..Len(top) |->
                    update_line(list_of([r \in 1..Len(side) |-> after_rows[r][c]]),
                                top[c])])
        after_cols == list_of([c \in 1..Len(top) |-> list_of(cols[c].value)])
    IN  IF \E r \in 1..Len(side) : rows[r].raised THEN Raise
        ELSE IF \E c \in 1..Len(top) : cols[c].raised THEN Raise
        ELSE Return(list_of([r \in 1..Len(side) |->
                        list_of([c \in 1..Len(top) |-> after_cols[c][r]])]))

\* The while loop of solve(): stop when no cell is Unknown, or when an
\* iteration has left the field as it was.
RECURSIVE iterate(_, _, _, _)
iterate(f, side, top, count) ==
    LET done == do_iteration(f, side, top)
    IN  IF done.raised
        THEN [outcome |-> "contradiction", field |-> f, iteration_count |-> count]
        ELSE IF \A r \in 1..Len(side), c \in 1..Len(top) :
                    done.value[r][c] # UNKNOWN
        THEN [outcome |-> "solved", field |-> done.value,
              iteration_count |-> count]
        ELSE IF done.value = f
        THEN [outcome |-> "stalled", field |-> done.value,
              iteration_count |-> count]
        ELSE iterate(done.value, side, top, count + 1)

\* solve() of the solver without skip lists, from a fresh instance.
solve_without_skips(side, top) ==
    LET painted == paint_block_overlaps(
                       [r \in 1..Len(side) |-> Repeat(UNKNOWN, Len(top))],
                       side, top)
    IN  iterate(list_of([r \in 1..Len(side) |-> list_of(painted[r])]), side, top, 0)

----------------------------------------------------------------------------
(* ScenarioSpec: solve() on the two example puzzles of the specification *)

\* Scenario A: one row of 5 cells with Clue [5].
ScenarioA == [side |-> <<<<5>>>>,
              top |-> <<<<1>>, <<1>>, <<1>>, <<1>>, <<1>>>>]
\* Scenario B: the 5x5 puzzle with stripes.
ScenarioB == [side |-> <<<<5>>, <<1, 1, 1>>, <<5>>, <<1, 1, 1>>, <<5>>>>,
              top |-> <<<<5>>, <<1, 1, 1>>, <<5>>, <<1, 1, 1>>, <<5>>>>]

ScenarioInit ==
    /\ \E puzzle \in {ScenarioA, ScenarioB} :
           /\ side_nums = puzzle.side
           /\ top_nums = puzzle.top
           /\ field = [r \in 1..Len(puzzle.side) |->
                           Repeat(UNKNOWN, Len(puzzle.top))]
    /\ skip_threshold \in SkipThresholds
    /\ solve_entry
    /\ line_idle

ScenarioSpec == ScenarioInit /\ [][Next]_vars

----------------------------------------------------------------------------
(* LineSpec: the line-level functions applied to one line and one clue *)

solve_idle ==
    /\ top_nums = <<>>
    /\ side_nums = <<>>
    /\ skip_threshold = 0
    /\ field = <<>>
    /\ rows_skipped = <<>>
    /\ cols_skipped = <<>>
    /\ field_save = <<>>
    /\ iteration_count = 0
    /\ ind_line = 0
    /\ pc = "none"

LineInit ==
    /\ solve_idle
    /\ \E n \in 0..MaxLineLen :
           /\ block_lengths \in Clues(n)
           /\ line \in Lines(n)
    /\ op = "input"
    /\ ret = <<>>

CallGenerateOption ==
    /\ op = "input"
    /\ op' = "generate_option"
    /\ ret' = generate_option(line, block_lengths, 0, <<>>)
    /\ UNCHANGED <<line, block_lengths>>
    /\ UNCHANGED solve_vars

CallUpdateLine ==
    /\ op = "input"
    /\ op' = "update_line"
    /\ ret' = update_line(line, block_lengths)
    /\ UNCHANGED <<line, block_lengths>>
    /\ UNCHANGED solve_vars

CallEstimateNOptions ==
    /\ op = "input"
    /\ op' = "estimate_n_options"
    /\ ret' = estimate_n_options(block_lengths, Len(line))
    /\ UNCHANGED <<line, block_lengths>>
    /\ UNCHANGED solve_vars

\* The painting of one row of the fresh field, as wide as the line.
CallPaintRow ==
    /\ op = "input"
    /\ op' = "paint_row"
    /\ ret' = paint_row(Repeat(UNKNOWN, Len(line)), block_lengths, 0, Len(line))
    /\ UNCHANGED <<line, block_lengths>>
    /\ UNCHANGED solve_vars

LineNext ==
    \/ CallGenerateOption
    \/ CallUpdateLine
    \/ CallEstimateNOptions
    \/ CallPaintRow

LineSpec == LineInit /\ [][LineNext]_vars

\* Both: a solve of a puzzle, or a line-level function applied to a line.
SolveOrLineSpec == (Init \/ LineInit) /\ [][Next \/ LineNext]_vars

----------------------------------------------------------------------------
(* What the claims speak of, defined without the solver's functions *)

\* The lengths of the maximal Painted runs of a fully assigned line.
RECURSIVE runs_from(_, _, _)
runs_from(o, k, run) ==
    IF k > Len(o) THEN (IF run > 0 THEN <<run>> ELSE <<>>)
    ELSE IF o[k] = PAINTED THEN runs_from(o, k + 1, run + 1)
    ELSE (IF run > 0 THEN <<run>> ELSE <<>>) \o runs_from(o, k + 1, 0)
Runs(o) == runs_from(o, 1, 0)

\* The Python indexes at which the Painted runs of a line start.
StartsOf(o) ==
    SelectSeq([k \in 1..Len(o) |-> k - 1],
              LAMBDA p : o[p + 1] = PAINTED /\ (p = 0 \/ o[p] # PAINTED))

Agrees(o, ln) == \A k \in 1..Len(ln) : ln[k] # UNKNOWN => o[k] = ln[k]

\* The Options of a clue that agree with the fixed cells of a line.
Options(ln, bl) ==
    {o \in [1..Len(ln) -> {SPACE, PAINTED}] : Runs(o) = bl /\ Agrees(o, ln)}

HasFixed(ln) == \E k \in 1..Len(ln) : ln[k] # UNKNOWN
Fits(bl, n) == sum(bl) + Len(bl) - 1 <= n

\* p < q in the lexicographic order of two sequences of the same length
LexLess(p, q) ==
    \E k \in 1..Len(p) : p[k] < q[k] /\ \A j \in 1..(k - 1) : p[j] = q[j]

unknown_count(f) ==
    Cardinality({rc \in (1..Len(f)) \X (1..n_cols) : f[rc[1]][rc[2]] = UNKNOWN})

----------------------------------------------------------------------------
(* C1 *)

\* C1 (Monotonicity): in every step of a solve the field keeps its shape
\* and every cell that is Blank or Painted keeps its value; only Unknown
\* cells change.
C1_Monotonic ==
    [][/\ Len(field') = Len(field)
       /\ \A r \in 1..Len(field) :
              /\ Len(field'[r]) = Len(field[r])
              /\ \A c \in 1..Len(field[r]) :
                     field[r][c] # UNKNOWN => field'[r][c] = field[r][c]]_vars

\* A pass of LineSolver has changed a field that already held Blank and
\* Painted cells.
C1_Witness ==
    /\ pc = "check"
    /\ field # field_save
    /\ \E r \in 1..Len(field_save), c \in 1..n_cols : field_save[r][c] = SPACE
    /\ \E r \in 1..Len(field_save), c \in 1..n_cols : field_save[r][c] = PAINTED

----------------------------------------------------------------------------
(* C2 *)

\* C2 (LineSolver exactness): for a line with a fixed cell and an Option
\* agreeing with it, _update_line returns a line of the same length, keeps
\* the fixed cells, and sets an Unknown cell to Painted (Blank) exactly when
\* it is Painted (Blank) in every Option; the other cells stay Unknown.
C2_LineSolverExact ==
    (op = "update_line" /\ HasFixed(line) /\ Options(line, block_lengths) # {})
    => /\ ~ret.raised
       /\ Len(ret.value) = Len(line)
       /\ \A k \in 1..Len(line) :
              IF line[k] # UNKNOWN THEN ret.value[k] = line[k]
              ELSE /\ ret.value[k] \in {UNKNOWN, SPACE, PAINTED}
                   /\ ret.value[k] = PAINTED <=>
                          \A o \in Options(line, block_lengths) : o[k] = PAINTED
                   /\ ret.value[k] = SPACE <=>
                          \A o \in Options(line, block_lengths) : o[k] = SPACE

\* One update that forces a Painted cell, forces a Blank cell and leaves a cell
\* Unknown.
C2_Witness ==
    /\ op = "update_line"
    /\ HasFixed(line)
    /\ ~ret.raised
    /\ \E k \in 1..Len(line) : line[k] = UNKNOWN /\ ret.value[k] = PAINTED
    /\ \E k \in 1..Len(line) : line[k] = UNKNOWN /\ ret.value[k] = SPACE
    /\ \E k \in 1..Len(line) : line[k] = UNKNOWN /\ ret.value[k] = UNKNOWN

----------------------------------------------------------------------------
(* C3 *)

\* C3 (OptionGenerator exactness): the sequence _generate_option yields holds
\* exactly the Options of the clue that agree with the line's fixed cells,
\* each once, in strictly increasing lexicographic order of the block starts.
C3_GeneratorExact ==
    op = "generate_option"
    => /\ {ret[k] : k \in 1..Len(ret)} = Options(line, block_lengths)
       /\ Len(ret) = Cardinality(Options(line, block_lengths))
       /\ \A k \in 1..(Len(ret) - 1) :
              LexLess(StartsOf(ret[k]), StartsOf(ret[k + 1]))

\* Several options are yielded for a line that has fixed cells of both kinds
\* and a clue of several blocks.
C3_Witness ==
    /\ op = "generate_option"
    /\ Len(ret) >= 2
    /\ Len(block_lengths) >= 2
    /\ \E k \in 1..Len(line) : line[k] = SPACE
    /\ \E k \in 1..Len(line) : line[k] = PAINTED

----------------------------------------------------------------------------
(* C4 *)

\* C4 (SkipEstimator exactness): for a clue that fits the line,
\* _estimate_n_options returns the number of options _generate_option yields
\* for the clue on an all-Unknown line of that length.
C4_EstimateExact ==
    (op = "estimate_n_options" /\ Fits(block_lengths, Len(line)))
    => /\ ~ret.raised
       /\ ret.value = Len(generate_option(Repeat(UNKNOWN, Len(line)),
                                          block_lengths, 0, <<>>))
       /\ ret.value = Cardinality(Options(Repeat(UNKNOWN, Len(line)),
                                          block_lengths))

\* L = 5, C = [2, 1] gives 3.
C4_Witness ==
    /\ op = "estimate_n_options"
    /\ Len(line) = 5
    /\ block_lengths = <<2, 1>>
    /\ ~ret.raised
    /\ ret.value = 3

----------------------------------------------------------------------------
(* C5 *)

\* The line the next turn of _solve_rows / _solve_columns works on.
current_line ==
    IF pc = "solve_rows" THEN field[ind_line + 1] ELSE column(field, ind_line)
current_clue ==
    IF pc = "solve_rows" THEN side_nums[ind_line + 1] ELSE top_nums[ind_line + 1]
current_skipped ==
    IF pc = "solve_rows" THEN In(ind_line, rows_skipped)
    ELSE In(ind_line, cols_skipped)

\* C5 (Contradiction): _update_line raises Contradiction exactly when its
\* line has a fixed cell and no Option of its clue agrees with the fixed
\* cells; a turn of a pass ends the solve in Contradiction exactly when its
\* line is not skipped and is such a line; the field is then left as it was
\* and no further step of the solve is taken.
C5_Contradiction ==
    [][/\ op' = "update_line"
          => (ret'.raised <=> /\ HasFixed(line)
                              /\ Options(line, block_lengths) = {})
       /\ pc \in {"solve_rows", "solve_columns"}
          => /\ pc' = "contradiction"
                    <=> /\ ~current_skipped
                        /\ HasFixed(current_line)
                        /\ Options(current_line, current_clue) = {}
             /\ pc' = "contradiction" => field' = field /\ ind_line' = ind_line
       /\ pc # "contradiction"]_vars

\* Scenario C: [Painted, Blank, Painted] with Clue [3] raises Contradiction.
C5_ScenarioC ==
    /\ op = "update_line"
    /\ line = <<PAINTED, SPACE, PAINTED>>
    /\ block_lengths = <<3>>
    /\ ret.raised

\* A solve ended by Contradiction, raised for a line that has no Unknown cell
\* left.
C5_Witness ==
    /\ pc = "contradiction"
    /\ iteration_count = 0
    /\ UNKNOWN \notin flattened(field)

----------------------------------------------------------------------------
(* C6 *)

in_loop == pc \in {"iterate", "solve_rows", "solve_columns", "check",
                   "solved", "stalled", "contradiction"}
skips_empty == rows_skipped = <<>> /\ cols_skipped = <<>>

\* The skip lists have been emptied: lines were skipped at first, none is now.
skips_emptied ==
    /\ skips_empty
    /\ \/ lines_to_skip(side_nums, n_cols, skip_threshold) # <<>>
       \/ lines_to_skip(top_nums, n_rows, skip_threshold) # <<>>

\* The cells the passes have resolved since the painting.
resolved_by_passes ==
    unknown_count(paint_block_overlaps(
                      [r \in 1..n_rows |-> Repeat(UNKNOWN, n_cols)],
                      side_nums, top_nums))
        - unknown_count(field)

\* The passes that did not end the loop are at most the cells resolved plus
\* the one pass that emptied the skip lists; so at most n_rows * n_cols + 2
\* passes are run.
C6_PassBound ==
    in_loop
    => /\ iteration_count <= resolved_by_passes + (IF skips_emptied THEN 1 ELSE 0)
       /\ iteration_count + 1 <= n_rows * n_cols + 2

\* A pass that does not end the loop has resolved a cell, or it is the pass
\* after which the non-empty skip lists are emptied; the skip lists never grow.
C6_PassStep ==
    /\ (pc = "check" /\ pc' = "iterate")
       => \/ unknown_count(field) < unknown_count(field_save)
          \/ /\ field = field_save
             /\ ~skips_empty
             /\ rows_skipped' = <<>>
             /\ cols_skipped' = <<>>
    /\ in_loop => /\ rows_skipped' \in {rows_skipped, <<>>}
                  /\ cols_skipped' \in {cols_skipped, <<>>}

\* The steps of one pass, and how far the loop has come: passes completed,
\* then the position within the pass.
pass_steps == n_rows + n_cols + 3
loop_rank ==
    iteration_count * pass_steps
        + (CASE pc = "iterate" -> 0
             [] pc = "solve_rows" -> 1 + ind_line
             [] pc = "solve_columns" -> 1 + n_rows + ind_line
             [] pc = "check" -> 1 + n_rows + n_cols
             [] OTHER -> 2 + n_rows + n_cols)

loop_ended == pc \in {"solved", "stalled", "contradiction"}

\* Wherever the loop has not ended its next step is defined: the line it
\* turns to exists in the field, whose shape is that of the puzzle.
C6_LoopRuns ==
    in_loop
    => /\ Len(field) = n_rows
       /\ \A r \in 1..n_rows : Len(field[r]) = n_cols
       /\ pc = "solve_rows" => ind_line \in 0..(n_rows - 1)
       /\ pc = "solve_columns" => ind_line \in 0..(n_cols - 1)

\* C6 (Termination): the loop ends in Solved, Stalled or Contradiction:
\* where it has not ended its next step is defined, every step moves it
\* forward, and it runs at most n_rows * n_cols + 2 passes; every pass that
\* does not end the loop resolves a cell or is the one pass after which the
\* skip lists are emptied.
C6_Termination ==
    /\ [](C6_PassBound /\ C6_LoopRuns
          /\ (in_loop => loop_rank <= (n_rows * n_cols + 2) * pass_steps))
    /\ [][/\ C6_PassStep
          /\ in_loop => in_loop' /\ loop_rank' > loop_rank
          /\ ~loop_ended]_vars

\* A solve that ends Stalled after two passes without progress: the one that
\* emptied the skip lists and the last one.
C6_Witness ==
    /\ pc = "stalled"
    /\ skips_emptied
    /\ iteration_count = resolved_by_passes + 1
    /\ iteration_count >= 2

----------------------------------------------------------------------------
(* C7 *)

\* C7 (post-pass decision): after a pass the loop goes to Solved exactly when
\* no cell is Unknown, else to Stalled exactly when the field equals the
\* snapshot and the skip lists are empty, else to another pass, emptying the
\* skip lists exactly when the field equals the snapshot; the field is not
\* changed by the decision, nor after Solved or Stalled.
C7_PostPassDecision ==
    [][/\ pc = "check"
          => /\ pc' = "solved" <=> unknown_count(field) = 0
             /\ pc' = "stalled" <=> /\ unknown_count(field) > 0
                                    /\ field = field_save
                                    /\ skips_empty
             /\ pc' = "iterate" <=> /\ unknown_count(field) > 0
                                    /\ ~(field = field_save /\ skips_empty)
             /\ pc' = "iterate"
                   => IF field = field_save
                      THEN rows_skipped' = <<>> /\ cols_skipped' = <<>>
                      ELSE /\ rows_skipped' = rows_skipped
                           /\ cols_skipped' = cols_skipped
             /\ field' = field
       /\ pc \notin {"solved", "stalled"}]_vars

\* Solved after a pass that changed nothing, with lines still skipped.
C7_Witness ==
    /\ pc = "solved"
    /\ field = field_save
    /\ ~skips_empty

----------------------------------------------------------------------------
(* C8 *)

\* The sum of the block lengths b_a .. b_b (0-based, inclusive).
block_sum(bl, a, b) == sum([j \in 1..(b - a + 1) |-> bl[a + j]])

\* Cell p (0-based) of a line of n cells lies in [max_start, min_finish) of
\* some block of the clue.
in_overlap(bl, n, p) ==
    \E i \in 0..(Len(bl) - 1) :
        /\ n - block_sum(bl, i, Len(bl) - 1) - (Len(bl) - i - 1) <= p
        /\ p < i + block_sum(bl, 0, i)

forced_painted(bl, n, p) ==
    \A o \in Options(Repeat(UNKNOWN, n), bl) : o[p + 1] = PAINTED

after_painting == pc = "iterate" /\ iteration_count = 0

\* C8 (OverlapPainter): after the painting the field has its shape, the
\* Painted cells are exactly those in [max_start, min_finish) of a block of
\* their row's or column's clue, all others are Unknown, every such cell is
\* Painted in every Option of that line's clue, and painting again changes
\* nothing.
C8_OverlapPainter ==
    after_painting
    => /\ Len(field) = n_rows
       /\ \A r \in 1..n_rows :
              /\ Len(field[r]) = n_cols
              /\ \A c \in 1..n_cols :
                     /\ field[r][c] =
                            IF \/ in_overlap(side_nums[r], n_cols, c - 1)
                               \/ in_overlap(top_nums[c], n_rows, r - 1)
                            THEN PAINTED ELSE UNKNOWN
                     /\ in_overlap(side_nums[r], n_cols, c - 1)
                            => forced_painted(side_nums[r], n_cols, c - 1)
                     /\ in_overlap(top_nums[c], n_rows, r - 1)
                            => forced_painted(top_nums[c], n_rows, r - 1)
       /\ paint_block_overlaps(field, side_nums, top_nums) = field

\* A 5-cell row with Clue [5] is fully Painted by the painting alone.
C8_Witness ==
    /\ after_painting
    /\ side_nums = <<<<5>>>>
    /\ field = <<<<PAINTED, PAINTED, PAINTED, PAINTED, PAINTED>>>>

----------------------------------------------------------------------------
(* C9 *)

\* _update_line with every probe searched from the start of the line.
update_line_forward(ln, bl) ==
    IF ln = Repeat(UNKNOWN, Len(ln)) THEN Return(ln)
    ELSE
    LET options == generate_option(ln, bl, 0, <<>>)
    IN  IF options = <<>> THEN Raise
        ELSE Return([p \in 1..Len(ln) |->
                 IF ln[p] # UNKNOWN THEN ln[p]
                 ELSE LET hypothesis == Head(options)[p]
                          probe == [ln EXCEPT ![p] =
                                       IF hypothesis = SPACE THEN PAINTED ELSE SPACE]
                      IN  IF generate_option(probe, bl, 0, <<>>) # <<>>
                          THEN UNKNOWN ELSE hypothesis])

\* C9 (scanning direction): for every Unknown cell and either pinned value
\* the search _update_line makes for the probe line (reversed line and clue
\* from the middle on) finds an Option exactly when the forward search does,
\* and _update_line returns what the always-forward variant returns.
C9_ScanDirection ==
    op = "update_line"
    => /\ ret = update_line_forward(line, block_lengths)
       /\ \A p \in 1..Len(line), v \in {SPACE, PAINTED} :
              line[p] = UNKNOWN
              => LET probe == [line EXCEPT ![p] = v]
                 IN  probe_options(probe, block_lengths, p - 1) # <<>>
                         <=> generate_option(probe, block_lengths, 0, <<>>) # <<>>

\* An update, for a clue that differs from its reverse, in which one cell of
\* the second half is left Unknown (the reversed search found an Option) and
\* another is forced (it found none).
C9_Witness ==
    /\ op = "update_line"
    /\ ~ret.raised
    /\ block_lengths # Reverse(block_lengths)
    /\ \E p \in 1..Len(line) :
           /\ 2 * (p - 1) >= Len(line)
           /\ line[p] = UNKNOWN
           /\ ret.value[p] = UNKNOWN
    /\ \E p \in 1..Len(line) :
           /\ 2 * (p - 1) >= Len(line)
           /\ line[p] = UNKNOWN
           /\ ret.value[p] # UNKNOWN

----------------------------------------------------------------------------
(* C10 *)

\* No Unknown cell of the line has the same value in all the Options of the
\* clue that agree with the line.
nothing_forced(ln, bl) ==
    LET options == Options(ln, bl)
    IN  \A k \in 1..Len(ln) :
            ln[k] = UNKNOWN
            => /\ \E o \in options : o[k] = SPACE
               /\ \E o \in options : o[k] = PAINTED

\* C10 (Stalled is a fixed point): at Stalled the skip lists are empty and
\* for every row and column nothing is forced and _update_line returns the
\* line unchanged.
C10_StalledFixedPoint ==
    pc = "stalled"
    => /\ skips_empty
       /\ \A r \in 1..n_rows :
              /\ nothing_forced(field[r], side_nums[r])
              /\ update_line(field[r], side_nums[r]) = Return(field[r])
       /\ \A c \in 1..n_cols :
              /\ nothing_forced(column(field, c - 1), top_nums[c])
              /\ update_line(column(field, c - 1), top_nums[c])
                     = Return(column(field, c - 1))

\* Stalled after the skipped lines were retried, with cells resolved and
\* cells left Unknown.
C10_Witness ==
    /\ pc = "stalled"
    /\ skips_emptied
    /\ resolved_by_passes > 0
    /\ unknown_count(field) > 0

----------------------------------------------------------------------------
(* C11 *)

is_scenario_b == side_nums = ScenarioB.side /\ top_nums = ScenarioB.top

\* Blank exactly where the row and the column index (0-based) are both odd.
striped ==
    [r \in 1..5 |-> [c \in 1..5 |->
        IF (r - 1) % 2 = 1 /\ (c - 1) % 2 = 1 THEN SPACE ELSE PAINTED]]

\* C11 (Scenario B): every solve of the 5x5 puzzle from a fresh instance,
\* whatever the threshold, never reaches Contradiction, Stalled or another
\* error, makes at most one pass without progress, has no Unknown cell left
\* when a pass that followed progress is tested, and in Solved has zero
\* Unknown cells and the striped field (Blank exactly where both indices
\* are odd).
C11_ScenarioB ==
    is_scenario_b
    => /\ pc \notin {"contradiction", "stalled", "value_error"}
       /\ iteration_count <= 1
       /\ pc = "check" /\ (iteration_count = 1 \/ skips_empty)
            => unknown_count(field) = 0
       /\ pc = "solved" => unknown_count(field) = 0 /\ field = striped

\* Scenario B solved after the skipped lines were retried.
C11_Witness ==
    /\ is_scenario_b
    /\ pc = "solved"
    /\ field = striped
    /\ iteration_count = 1

----------------------------------------------------------------------------
(* C12 *)

\* C12: for every line of at least one cell and every clue of positive
\* block lengths, fitting the line or not, _estimate_n_options returns a
\* non-negative integer without raising, and the painting of a row leaves it
\* as wide as it was.
C12_NoOtherError ==
    Len(line) >= 1
    => /\ op = "estimate_n_options" => ~ret.raised /\ ret.value >= 0
       /\ op = "paint_row" => Len(ret) = Len(line)

----------------------------------------------------------------------------
(* C13 *)

\* The number of Options of a clue on an empty line of n cells, by counting.
option_count(bl, n) == Cardinality(Options(Repeat(UNKNOWN, n), bl))

\* The indexes, ascending, of the lines with more Options than the threshold.
over_threshold(nums, n) ==
    SelectSeq([k \in 1..Len(nums) |-> k - 1],
              LAMBDA i : option_count(nums[i + 1], n) > skip_threshold)

\* A pass has just left the field as its snapshot, with Unknown cells and
\* skipped lines remaining.
pass_without_progress ==
    /\ pc = "check"
    /\ field = field_save
    /\ unknown_count(field) > 0
    /\ ~skips_empty

C13_Step ==
    /\ pc = "define_lines_to_skip"
       => /\ rows_skipped' = over_threshold(side_nums, n_cols)
          /\ cols_skipped' = over_threshold(top_nums, n_rows)
    /\ pc \in {"solve_rows", "solve_columns"} /\ current_skipped
       => field' = field /\ pc' # "contradiction"
    /\ pc # "define_lines_to_skip"
       => IF pass_without_progress
          THEN rows_skipped' = <<>> /\ cols_skipped' = <<>>
          ELSE rows_skipped' = rows_skipped /\ cols_skipped' = cols_skipped

\* C13 (SkipSet lifecycle): Initializing leaves in the skip lists exactly the
\* rows and columns with more Options than the threshold; a turn of a pass
\* on a skipped line leaves the field as it is and raises nothing; after
\* Initializing the skip lists change only by being emptied, which happens
\* exactly at the test after a pass that left the field equal to its
\* snapshot with Unknown cells and skipped lines remaining, so they are
\* never refilled.
C13_SkipSetLifecycle == [][C13_Step]_vars

\* A skipped line that _update_line would change or refuse is being passed
\* over, in a solve whose lists hold some lines and not others.
C13_Witness ==
    /\ pc \in {"solve_rows", "solve_columns"}
    /\ current_skipped
    /\ update_line(current_line, current_clue) # Return(current_line)
    /\ Len(rows_skipped) + Len(cols_skipped) < n_rows + n_cols

----------------------------------------------------------------------------
(* C14 *)

all_unknown(ln) == ln = Repeat(UNKNOWN, Len(ln))

\* The rows and columns of the field, each with its clue.
lines_of_field ==
    {<<field[r], side_nums[r]>> : r \in 1..n_rows}
    \cup {<<column(field, c - 1), top_nums[c]>> : c \in 1..n_cols}

\* C14 (short-circuit): in every state of a solve after the painting, for
\* every row and column that is entirely Unknown, the probing of
\* _update_line without its first test returns the line unchanged, and no
\* cell of the line has the same value in every Option of its clue.
C14_ShortCircuit ==
    in_loop
    => \A lc \in lines_of_field :
           all_unknown(lc[1])
           => /\ probe_line(lc[1], lc[2]) = Return(lc[1])
              /\ nothing_forced(lc[1], lc[2])

\* A pass turns to an entirely Unknown line that is not skipped, in a field
\* where other cells are already resolved, after an earlier pass.
C14_Witness ==
    /\ pc \in {"solve_rows", "solve_columns"}
    /\ ~current_skipped
    /\ all_unknown(current_line)
    /\ unknown_count(field) < n_rows * n_cols
    /\ iteration_count >= 1

----------------------------------------------------------------------------
(* C15 *)

\* Every row and column of a field without Unknown cells has exactly the
\* Painted runs of its clue.
valid_solution(f) ==
    /\ \A r \in 1..n_rows : Runs(f[r]) = side_nums[r]
    /\ \A c \in 1..n_cols : Runs(column(f, c - 1)) = top_nums[c]

\* C15 (Solved implies a valid solution): whenever a solve of fitting clues
\* ends in Solved, under any threshold, every row and every column of the
\* final field has exactly the Painted runs of its own clue.
C15_SolvedIsValid == pc = "solved" => valid_solution(field)

----------------------------------------------------------------------------
(* C16 *)

\* The fields whose rows from r on are Options of their clues.
RECURSIVE rows_from(_)
rows_from(r) ==
    IF r > n_rows THEN {<<>>}
    ELSE {<<o>> \o g : o \in Options(Repeat(UNKNOWN, n_cols), side_nums[r]),
                       g \in rows_from(r + 1)}

\* The full solutions of the puzzle: every row and column is an Option of its
\* clue.
Solutions == {g \in rows_from(1) : valid_solution(g)}

agrees_with(f, S) ==
    \A r \in 1..n_rows, c \in 1..n_cols :
        f[r][c] # UNKNOWN => f[r][c] = S[r][c]

\* A step of the solve of a puzzle that has a solution, if it writes to the
\* field or ends the solve, leaves it sound.
C16_Step ==
    (field' # field \/ pc' \in {"solved", "stalled", "contradiction"})
    /\ Solutions # {}
    => /\ \A S \in Solutions : agrees_with(field', S)
       /\ pc' # "contradiction"

\* C16 (soundness): in the solve of a puzzle that has a solution, from the
\* all-Unknown field on, the painting and every line update leave every
\* cell that is not Unknown with the value it has in every solution, and no
\* step of such a solve raises Contradiction.
C16_Sound == [][C16_Step]_vars

\* A puzzle with several solutions, stalled after the passes resolved cells.
C16_Witness ==
    /\ pc = "stalled"
    /\ Cardinality(Solutions) >= 2
    /\ resolved_by_passes > 0

----------------------------------------------------------------------------
(* C17 *)

\* C17 (the threshold changes only the order of work): every solve of a
\* puzzle that has a solution, under any threshold, ends (in Solved or
\* Stalled) with the outcome and the field of the solve without skip lists
\* of the same clues, so any two thresholds give the same outcome and field;
\* under a threshold that skips no line it also makes as many passes as the
\* solver without skip lists.
C17_ThresholdIrrelevant ==
    loop_ended /\ Solutions # {}
    => LET reference == solve_without_skips(side_nums, top_nums)
       IN  /\ pc = reference.outcome
           /\ field = reference.field
           /\ lines_to_skip(side_nums, n_cols, skip_threshold) = <<>>
              /\ lines_to_skip(top_nums, n_rows, skip_threshold) = <<>>
              => iteration_count = reference.iteration_count

\* A solve that skipped lines, emptied its lists and went on has ended, for a
\* puzzle with a solution.
C17_Witness ==
    /\ loop_ended
    /\ Solutions # {}
    /\ skips_emptied
    /\ iteration_count >= 2
    /\ resolved_by_passes > 0

=============================================================================
